---- MODULE Spec2Model ----
(***************************************************************************)
(* The refresh_unity tool of the server                                    *)
(* (src/Server/src/services/tools/refresh_unity.py): one transport send,   *)
(* classification of a failed response, the readiness poll loop and the    *)
(* clear of the external-changes dirty flag.                               *)
(*                                                                         *)
(* Texts are sequences of one-character strings, so that lower-casing and  *)
(* substring search are computed as the code computes them.  An absent     *)
(* (None) text and the empty text are both <<>>; the code only ever tests  *)
(* them with `or`, which treats the two alike.  The pass-through params    *)
(* mode and scope are not read by the tool and are left out.               *)
(*                                                                         *)
(* The stall heuristic should_nudge of src/Server/src/utils/focus_nudge.py *)
(* is an operator, applied to inputs drawn from bounded sets.  An optional *)
(* integer is <<>> when absent (None) and <<n>> when given.                *)
(*                                                                         *)
(* nudge_unity_focus of the same file is a state machine of its own: the   *)
(* code from the call to the await of line 273 is one step, the code after *)
(* the sleep another.  Application names are texts; the monotonic clock    *)
(* counts whole seconds and is read once per call, at line 248.            *)
(***************************************************************************)
EXTENDS Integers, Sequences, FiniteSets, TLC

VARIABLES
    pc,                         \* position of the refresh_unity coroutine
    params,                     \* params dict: compile, wait_for_ready
    unity_instance,             \* get_unity_instance_from_context(ctx)
    response,                   \* what the transport send returned
    recovered_from_disconnect,  \* local of refresh_unity
    ready_confirmed,            \* local of refresh_unity
    start,                      \* time.monotonic() when the poll loop began
    clock,                      \* time.monotonic(), in ticks
    dirty,                      \* external_changes_scanner: instance -> flag
    ret,                        \* value returned to the caller
    transport_calls,            \* sends made through the transport in this call
    fetches,                    \* get_editor_state calls made in this call (capped)
    last_advice,                \* advice of the latest readiness fetch
    clear_calls,                \* instances clear_dirty was called for in this call
    clear_outcome,              \* how lines 139-144 ended in this call
    marked_after_ready,         \* instances marked dirty since this call confirmed readiness
    store_log,                  \* operations applied to the dirty store on its own
    sn_args,                    \* arguments of the latest should_nudge call
    sn_wall,                    \* time.time() in ms as that call read it, if it did
    sn_result,                  \* what that call returned
    system,                     \* platform.system() of the process
    monotonic,                  \* time.monotonic() of focus_nudge, in seconds
    _last_nudge_time,           \* module global of focus_nudge.py
    frontmost,                  \* the application in the foreground
    nudge_pc,                   \* position of each nudge_unity_focus caller
    original_app,               \* local of each nudge_unity_focus call
    wake_at,                    \* when each caller's sleep is over
    last_focus_time,            \* clock reading of the latest call that focused Unity
    nudge_step,                 \* what the latest nudge_unity_focus step did
    tool_log,                   \* calls of the script tools and of the CLI edit command
    tr_args,                    \* arguments and configuration of the send_command call
    tr_pc,                      \* position of the send_command coroutine
    tr_requests,                \* HTTP requests send_command has posted
    tr_result                   \* what send_command returned or raised

\* The variables of one refresh_unity call.
callVars == <<pc, params, unity_instance, response, recovered_from_disconnect,
              ready_confirmed, start, clock, ret, transport_calls,
              fetches, last_advice, clear_calls, clear_outcome, marked_after_ready>>

refreshVars == <<callVars, dirty>>

\* The variables refresh_unity does not touch.
storeVars == <<store_log>>

\* The variables of should_nudge calls.
shouldVars == <<sn_args, sn_wall, sn_result>>

\* The variables of nudge_unity_focus.
nudgeVars == <<system, monotonic, _last_nudge_time, frontmost, nudge_pc, original_app, wake_at,
               last_focus_time, nudge_step>>

\* The variable of the script tools and of the CLI edit command.
toolVars == <<tool_log>>

\* The variables of one send_command call.
transportVars == <<tr_args, tr_pc, tr_requests, tr_result>>

cliVars == <<toolVars, transportVars>>

otherVars == <<storeVars, shouldVars, nudgeVars, cliVars>>

vars == <<refreshVars, otherVars>>

None == "None"

\* ---------------------------------------------------------------- texts

UpperAlpha == <<"A", "B", "C", "D", "E", "F", "G", "H", "I", "J", "K", "L", "M", "N", "O", "P", "Q", "R", "S", "T", "U", "V", "W", "X", "Y", "Z">>

LowerAlpha == <<"a", "b", "c", "d", "e", "f", "g", "h", "i", "j", "k", "l", "m", "n", "o", "p", "q", "r", "s", "t", "u", "v", "w", "x", "y", "z">>

S_connection_closed == <<"c", "o", "n", "n", "e", "c", "t", "i", "o", "n", " ", "c", "l", "o", "s", "e", "d">>

S_disconnected == <<"d", "i", "s", "c", "o", "n", "n", "e", "c", "t", "e", "d">>

S_aborted == <<"a", "b", "o", "r", "t", "e", "d">>

S_timeout == <<"t", "i", "m", "e", "o", "u", "t">>

S_could_not_connect == <<"c", "o", "u", "l", "d", " ", "n", "o", "t", " ", "c", "o", "n", "n", "e", "c", "t">>

T_ConnectionClosed == <<"C", "o", "n", "n", "e", "c", "t", "i", "o", "n", " ", "c", "l", "o", "s", "e", "d">>

T_Disconnected == <<"U", "n", "i", "t", "y", " ", "d", "i", "s", "c", "o", "n", "n", "e", "c", "t", "e", "d">>

T_Aborted == <<"C", "o", "n", "n", "e", "c", "t", "i", "o", "n", " ", "A", "b", "o", "r", "t", "e", "d">>

T_Timeout == <<"T", "i", "m", "e", "o", "u", "t">>

T_CouldNotConnect == <<"C", "o", "u", "l", "d", " ", "n", "o", "t", " ", "c", "o", "n", "n", "e", "c", "t">>

T_InvalidMode == <<"I", "n", "v", "a", "l", "i", "d", " ", "m", "o", "d", "e">>

T_Busy == <<"U", "n", "i", "t", "y", " ", "i", "s", " ", "b", "u", "s", "y">>
M_TimedOut == <<"R", "e", "f", "r", "e", "s", "h", " ", "t", "r", "i", "g", "g", "e", "r", "e", "d", " ", "b", "u", "t", " ", "t", "i", "m", "e", "d", " ", "o", "u", "t", " ", "a", "f", "t", "e", "r", " ", "6", "0", ".", "0", "s", " ", "w", "a", "i", "t", "i", "n", "g", " ", "f", "o", "r", " ", "e", "d", "i", "t", "o", "r", " ", "r", "e", "a", "d", "i", "n", "e", "s", "s", ".">>

M_Recovered == <<"R", "e", "f", "r", "e", "s", "h", " ", "r", "e", "c", "o", "v", "e", "r", "e", "d", " ", "a", "f", "t", "e", "r", " ", "U", "n", "i", "t", "y", " ", "d", "i", "s", "c", "o", "n", "n", "e", "c", "t", "/", "r", "e", "t", "r", "y", ";", " ", "e", "d", "i", "t", "o", "r", " ", "i", "s", " ", "r", "e", "a", "d", "y", ".">>

M_Refreshed == <<"R", "e", "f", "r", "e", "s", "h", "e", "d">>


\* str.lower(), one character
LowerChar(c) ==
    IF \E i \in 1..Len(UpperAlpha) : UpperAlpha[i] = c
    THEN LowerAlpha[CHOOSE i \in 1..Len(UpperAlpha) : UpperAlpha[i] = c]
    ELSE c

\* str.lower()
Lower(s) == [i \in 1..Len(s) |-> LowerChar(s[i])]

\* `sub in s` on str
Contains(sub, s) ==
    \E i \in 0..(Len(s) - Len(sub)) : SubSeq(s, i + 1, i + Len(sub)) = sub

\* ---------------------------------------------------------------- bounds and constants
\* Time is counted in ticks of one poll interval (0.25 s).  The clock is read only
\* inside the poll loop, so it is advanced only by the loop's two awaits: the
\* readiness fetch (no time, or SlowFetch ticks) and the sleep (one tick).
TicksPerSecond == 4

PollIntervalTicks == 1

timeout_s == 60

\* A readiness fetch returns at once or after SlowFetch ticks.
SlowFetch == 20

\* The count of readiness fetches is kept up to FetchCap.
FetchCap == 2

Instances == {"A", "B"}

\* The dirty store on its own takes up to MaxStoreOps operations.
MaxStoreOps == 4

\* focus_nudge.py line 290: the default of stall_threshold_ms.
stall_threshold_ms_default == 10000

\* Times given to should_nudge go up to MaxStallSteps half-thresholds.
MaxStallSteps == 3

\* Times in ms: the multiples of half the default threshold, each with the
\* value just below and just above it.
TimesMs ==
    {k * (stall_threshold_ms_default \div 2) + j : k \in 0..MaxStallSteps, j \in {-1, 0, 1}}

ThresholdsMs == {0, stall_threshold_ms_default \div 2, stall_threshold_ms_default}

\* An optional integer: absent, or one of the values of S.
Optional(S) == {<<>>} \cup {<<n>> : n \in S}

Statuses == {"running", "Running", "succeeded", "failed"}

\* focus_nudge.py line 21
_MIN_NUDGE_INTERVAL_S == 5

\* The monotonic clock is followed up to MaxMonotonic seconds.
MaxMonotonic == 6

\* focus_duration_s is 0 or MaxFocusDuration seconds.
MaxFocusDuration == 1

\* Callers of nudge_unity_focus that can be in flight together.
Callers == {1, 2}

A_Unity == <<"U", "n", "i", "t", "y">>
A_UnityHub == <<"U", "n", "i", "t", "y", " ", "H", "u", "b">>
A_Terminal == <<"T", "e", "r", "m", "i", "n", "a", "l">>
A_Empty == <<>>

\* What _get_frontmost_app can report: application names, the empty text too.
Apps == {A_Unity, A_UnityHub, A_Terminal, A_Empty}

\* platform.system(): on Windows the frontmost application is reported by the
\* title of its window (empty for a window without a title), on Linux by the id
\* of its window.  Darwin reports the process name, a text the code tests the way
\* it tests the Windows title.
Systems == {"Windows", "Linux"}

\* What xdotool getactivewindow prints for the window of each application.
WindowId(app) ==
    CASE app = A_Unity -> <<"4", "1">>
      [] app = A_UnityHub -> <<"4", "2">>
      [] app = A_Terminal -> <<"4", "3">>
      [] OTHER -> <<"4", "4">>

\* Lines 203-212 with 38-54 and 159-172: what _get_frontmost_app() returns when
\* it succeeds with app in the foreground.
_get_frontmost_app(sys, app) == IF sys = "Linux" THEN WindowId(app) ELSE app

\* Lines 215-224 with 57-69 and 175-200: the application a successful
\* _focus_app(target) brings to the foreground.
Focused(sys, target) ==
    IF target = A_Unity THEN A_Unity
    ELSE IF sys = "Linux"
    THEN CHOOSE app \in Apps : WindowId(app) = target
    ELSE target

\* ---------------------------------------------------------------- responses
NoData == <<>>

NoValue == <<>>

ReloadingData == [reason |-> "reloading"]

Failure(kind, error, message, hint, data) ==
    [kind |-> kind, success_given |-> TRUE, success |-> FALSE, error |-> error,
     message |-> message, hint |-> hint, data |-> data]

\* Error texts a failed send comes back with.
ErrorTexts ==
    {T_ConnectionClosed, T_Disconnected, T_Aborted, T_Timeout,
     T_CouldNotConnect, T_InvalidMode, <<>>}

FailedResponses ==
    {Failure("dict", e, <<>>, None, NoData) : e \in ErrorTexts}
    \cup {Failure("dict", <<>>, m, None, NoData) : m \in {T_ConnectionClosed, T_InvalidMode}}
    \cup {Failure("dict", e, <<>>, "retry", NoData) : e \in {T_ConnectionClosed, T_InvalidMode}}
    \cup {Failure("dict", T_Busy, <<>>, h, ReloadingData) : h \in {None, "retry"}}
    \cup {Failure("model", T_Timeout, <<>>, None, NoData)}

SucceededResponses ==
    {[kind |-> k, success_given |-> TRUE, success |-> TRUE, error |-> <<>>,
      message |-> <<>>, hint |-> None, data |-> NoData] : k \in {"dict", "model"}}

\* A dict that has no "success" key: success_given is FALSE, and the success field
\* is not read.
BareResponses ==
    {[kind |-> "dict", success_given |-> FALSE, success |-> TRUE, error |-> <<>>,
      message |-> M_Refreshed, hint |-> None, data |-> NoData]}

Responses == SucceededResponses \cup FailedResponses \cup BareResponses

\* Mutant: a response without the success field counts as failed.
Success_requires_field(r) == IF r.success_given THEN r.success ELSE FALSE

\* response_dict.get("success", True)
Success(r) == IF r.success_given THEN r.success ELSE TRUE

\* (response_dict.get("error") or response_dict.get("message") or "").lower()
ErrText(r) ==
    Lower(IF r.error # <<>> THEN r.error ELSE IF r.message # <<>> THEN r.message ELSE <<>>)

\* The reason token of a response: its explicit reason field.
ExtractResponseReason(r) ==
    IF "reason" \in DOMAIN r.data THEN r.data.reason ELSE None

\* Mutant: the "aborted" text is not looked for.
is_connection_lost_without_aborted(err, reason) ==
    \/ Contains(S_connection_closed, err)
    \/ Contains(S_disconnected, err)
    \/ Contains(S_timeout, err)
    \/ reason = "reloading"

is_connection_lost(err, reason) ==
    \/ Contains(S_connection_closed, err)
    \/ Contains(S_disconnected, err)
    \/ Contains(S_aborted, err)
    \/ Contains(S_timeout, err)
    \/ reason = "reloading"

\* Mutant: the second operand of `or` is the bare text, which is always true.
IsRetryable_always(hint, err) == hint = "retry" \/ S_could_not_connect # <<>>

\* Mutant: only the hint is looked at.
IsRetryable_hint_only(hint, err) == hint = "retry"

\* Line 87: hint == "retry" or "could not connect" in err
IsRetryable(hint, err) == hint = "retry" \/ Contains(S_could_not_connect, err)

\* Mutant: a successful response is returned at once.
Classify_returns_on_success(r, compile, wait_for_ready) ==
    LET hint == r.hint
        err == ErrText(r)
        reason == ExtractResponseReason(r)
    IN  IF Success(r)
        THEN [recovered |-> FALSE, action |-> "return"]
        ELSE IF is_connection_lost(err, reason) /\ compile = "request"
        THEN [recovered |-> TRUE, action |-> "continue"]
        ELSE IF IsRetryable(hint, err)
        THEN IF ~wait_for_ready
             THEN [recovered |-> FALSE, action |-> "return"]
             ELSE [recovered |-> TRUE, action |-> "continue"]
        ELSE [recovered |-> FALSE, action |-> "return"]

\* Mutant: the retryable test is made before the expected-reload test.
Classify_retryable_first(r, compile, wait_for_ready) ==
    LET hint == r.hint
        err == ErrText(r)
        reason == ExtractResponseReason(r)
    IN  IF Success(r)
        THEN [recovered |-> FALSE, action |-> "continue"]
        ELSE IF IsRetryable(hint, err)
        THEN IF ~wait_for_ready
             THEN [recovered |-> FALSE, action |-> "return"]
             ELSE [recovered |-> TRUE, action |-> "continue"]
        ELSE IF is_connection_lost(err, reason) /\ compile = "request"
        THEN [recovered |-> TRUE, action |-> "continue"]
        ELSE [recovered |-> FALSE, action |-> "return"]

\* Mutant: the retryable branch goes to the wait loop without line 91.
Classify_retryable_unmarked(r, compile, wait_for_ready) ==
    LET hint == r.hint
        err == ErrText(r)
        reason == ExtractResponseReason(r)
    IN  IF Success(r)
        THEN [recovered |-> FALSE, action |-> "continue"]
        ELSE IF is_connection_lost(err, reason) /\ compile = "request"
        THEN [recovered |-> TRUE, action |-> "continue"]
        ELSE IF IsRetryable(hint, err)
        THEN IF ~wait_for_ready
             THEN [recovered |-> FALSE, action |-> "return"]
             ELSE [recovered |-> FALSE, action |-> "continue"]
        ELSE [recovered |-> FALSE, action |-> "return"]

\* Lines 64-95: what the tool does with the response of the send.
\* action "return": the response goes back to the caller at once;
\* action "continue": the call goes on to the wait loop.
Classify(r, compile, wait_for_ready) ==
    LET hint == r.hint
        err == ErrText(r)
        reason == ExtractResponseReason(r)
    IN  IF Success(r)
        THEN [recovered |-> FALSE, action |-> "continue"]
        ELSE IF is_connection_lost(err, reason) /\ compile = "request"
        THEN [recovered |-> TRUE, action |-> "continue"]
        ELSE IF IsRetryable(hint, err)
        THEN IF ~wait_for_ready
             THEN [recovered |-> FALSE, action |-> "return"]
             ELSE [recovered |-> TRUE, action |-> "continue"]
        ELSE [recovered |-> FALSE, action |-> "return"]

\* MCPResponse(**response_dict): the five fields of the response model.
MCPResponse(r) ==
    [success |-> r.success, message |-> r.message, error |-> r.error,
     data |-> r.data, hint |-> r.hint]

\* The response model requires the success field.
Constructible(r) == r.success_given

\* Mutant: the timeout is reported as a plain error, without the timeout marker.
TimeoutResponse_generic ==
    [success |-> FALSE, message |-> M_TimedOut, error |-> T_Timeout,
     data |-> NoData, hint |-> None]

TimeoutResponse ==
    [success |-> FALSE, message |-> M_TimedOut, error |-> <<>>,
     data |-> [timeout |-> TRUE, wait_seconds |-> timeout_s], hint |-> None]

RecoveredResponse ==
    [success |-> TRUE, message |-> M_Recovered, error |-> <<>>,
     data |-> [recovered_from_disconnect |-> TRUE], hint |-> None]

\* Mutant: the send is allowed to retry on reload.
retry_on_reload_enabled == TRUE

\* Line 56: retry_on_reload=False
retry_on_reload == FALSE

\* ---------------------------------------------------------------- readiness advice
\* Mutant: stale_status counts as busy.
real_blocking_reasons_with_stale ==
    {"compiling", "domain_reload", "running_tests", "asset_import", "stale_status"}

\* Line 106
real_blocking_reasons == {"compiling", "domain_reload", "running_tests", "asset_import"}

Advice(ready, blocking) ==
    [is_dict |-> TRUE, ready_for_tools |-> ready, blocking_reasons |-> blocking]

\* An editor state whose advice is absent or is not a mapping.
NoAdvice == [is_dict |-> FALSE, ready_for_tools |-> FALSE, blocking_reasons |-> {}]

Advices ==
    {NoAdvice,
     Advice(TRUE, {}), Advice(TRUE, {"compiling"}),
     Advice(FALSE, {}), Advice(FALSE, {"stale_status"}),
     Advice(FALSE, {"compiling"}), Advice(FALSE, {"domain_reload"}),
     Advice(FALSE, {"running_tests"}), Advice(FALSE, {"asset_import", "stale_status"})}

\* Mutant: the advice is read without the isinstance test of line 116.
AdviceConfirmsReady_any_type(advice) ==
    \/ advice.ready_for_tools = TRUE
    \/ advice.blocking_reasons \cap real_blocking_reasons = {}

\* Mutant: ready_for_tools counts only with no busy reason listed.
AdviceConfirmsReady_only_unblocked(advice) ==
    /\ advice.is_dict
    /\ advice.blocking_reasons \cap real_blocking_reasons = {}

\* Lines 116-126: does this observation end the poll loop as ready.
AdviceConfirmsReady(advice) ==
    /\ advice.is_dict
    /\ \/ advice.ready_for_tools = TRUE
       \/ advice.blocking_reasons \cap real_blocking_reasons = {}

\* Line 108: time.monotonic() - start < timeout_s
LoopCondition(now, began) == now - began < timeout_s * TicksPerSecond

\* Mutant: clearing one instance drops the flag of every instance.
clear_dirty_all(flags, inst) == [i \in DOMAIN flags |-> FALSE]

\* external_changes_scanner.clear_dirty(inst)
clear_dirty(flags, inst) == [flags EXCEPT ![inst] = FALSE]

\* external_changes_scanner.mark_dirty(inst)
mark_dirty(flags, inst) == [flags EXCEPT ![inst] = TRUE]

\* external_changes_scanner.is_dirty(inst)
is_dirty(flags, inst) == flags[inst]

\* ---------------------------------------------------------------- state machine
\* The state before refresh_unity is called.
RefreshInit ==
    /\ pc = "idle"
    /\ params = [compile |-> "none", wait_for_ready |-> TRUE]
    /\ unity_instance = None
    /\ response = NoValue
    /\ recovered_from_disconnect = FALSE
    /\ ready_confirmed = FALSE
    /\ start = 0
    /\ clock = 0
    /\ dirty = [i \in Instances |-> FALSE]
    /\ ret = NoValue
    /\ transport_calls = <<>>
    /\ fetches = 0
    /\ last_advice = NoAdvice
    /\ clear_calls = {}
    /\ clear_outcome = "none"
    /\ marked_after_ready = {}

\* focus_nudge.py line 22 and the callers at rest; no step made yet.
NoStep ==
    [kind |-> "none", force |-> FALSE, outcome |-> "none", focus_calls |-> <<>>,
     returned |-> <<>>]

NudgeRest ==
    /\ monotonic = 0
    /\ _last_nudge_time = 0
    /\ frontmost = A_Terminal
    /\ nudge_pc = [p \in Callers |-> "idle"]
    /\ original_app = [p \in Callers |-> <<>>]
    /\ wake_at = [p \in Callers |-> 0]
    /\ last_focus_time = <<>>
    /\ nudge_step = NoStep

NudgeInit == system = "Windows" /\ NudgeRest

\* No tool has been called.
ToolRest == tool_log = <<>>

\* send_command has not been called.
TransportRest ==
    /\ tr_args = <<>>
    /\ tr_pc = "idle"
    /\ tr_requests = <<>>
    /\ tr_result = <<>>

Init ==
    /\ RefreshInit
    /\ store_log = <<>>
    /\ sn_args = NoValue
    /\ sn_wall = <<>>
    /\ sn_result = <<>>
    /\ NudgeInit
    /\ ToolRest
    /\ TransportRest

\* Mutant: a loop that ran out of time falls through to lines 138-153.
EnterLoop_timeout_falls_through(now, began) ==
    IF LoopCondition(now, began)
    THEN /\ pc' = "fetch"
         /\ fetches' = IF fetches < FetchCap THEN fetches + 1 ELSE fetches
         /\ UNCHANGED ret
    ELSE /\ pc' = "infer"
         /\ UNCHANGED <<ret, fetches>>

\* Lines 108-109 and 130-136: the loop condition is read; the next fetch is made, or
\* the loop is left without readiness confirmed and the timeout failure returned.
EnterLoop(now, began) ==
    IF LoopCondition(now, began)
    THEN /\ pc' = "fetch"
         /\ fetches' = IF fetches < FetchCap THEN fetches + 1 ELSE fetches
         /\ UNCHANGED ret
    ELSE /\ pc' = "done"
         /\ ret' = TimeoutResponse
         /\ UNCHANGED fetches

\* Lines 146-153: the value the call ends with.
Return(recovered, resp) ==
    IF recovered
    THEN pc' = "done" /\ ret' = RecoveredResponse
    ELSE IF resp.kind = "dict" /\ ~Constructible(resp)
    THEN pc' = "raised" /\ ret' = NoValue
    ELSE pc' = "done" /\ ret' = MCPResponse(resp)

\* Mutant: clear_dirty is called for the instance and the flags of all are dropped.
ClearFor_every_instance(inst) ==
    /\ clear_calls' = clear_calls \cup {inst}
    /\ \E ok \in BOOLEAN :
          /\ dirty' = IF ok THEN [i \in Instances |-> FALSE] ELSE dirty
          /\ clear_outcome' = IF ok THEN "cleared" ELSE "clear_raised"

\* Lines 141-144 with the instance known: clear_dirty, any exception swallowed.
ClearFor(inst) ==
    /\ clear_calls' = clear_calls \cup {inst}
    /\ \E ok \in BOOLEAN :
          /\ dirty' = IF ok THEN clear_dirty(dirty, inst) ELSE dirty
          /\ clear_outcome' = IF ok THEN "cleared" ELSE "clear_raised"

\* Mutant: the instance is inferred, with its await, also when it is given.
ClearDirtyAndReturn_always_infers(recovered, resp) ==
    pc' = "infer" /\ UNCHANGED <<dirty, clear_calls, clear_outcome, ret>>

\* Lines 138-153, up to the next await.
ClearDirtyAndReturn(recovered, resp) ==
    IF unity_instance # None
    THEN ClearFor(unity_instance) /\ Return(recovered, resp)
    ELSE pc' = "infer" /\ UNCHANGED <<dirty, clear_calls, clear_outcome, ret>>

\* Lines 39-57: the call starts and awaits the one transport send.
Call(compile, wait_for_ready, inst) ==
    /\ pc = "idle"
    /\ params' = [compile |-> compile, wait_for_ready |-> wait_for_ready]
    /\ unity_instance' = inst
    /\ recovered_from_disconnect' = FALSE
    /\ transport_calls' =
         Append(transport_calls, [command |-> "refresh_unity", retry_on_reload |-> retry_on_reload])
    /\ pc' = "send"
    /\ UNCHANGED <<response, ready_confirmed, start, clock, dirty, ret, fetches,
                   last_advice, clear_calls, clear_outcome, marked_after_ready>>
    /\ UNCHANGED otherVars

\* Lines 63-108 and, when no wait is asked for, 138-153: the send has returned r.
SendReturns(r) ==
    /\ pc = "send"
    /\ response' = r
    /\ LET c == Classify(r, params.compile, params.wait_for_ready) IN
       IF c.action = "return"
       THEN /\ pc' = "done"
            /\ ret' = MCPResponse(r)
            /\ UNCHANGED <<recovered_from_disconnect, ready_confirmed, start, dirty,
                           clear_calls, clear_outcome, fetches>>
       ELSE /\ recovered_from_disconnect' = c.recovered
            /\ ready_confirmed' = FALSE
            /\ IF params.wait_for_ready
               THEN /\ start' = clock
                    /\ EnterLoop(clock, clock)
                    /\ UNCHANGED <<dirty, clear_calls, clear_outcome>>
               ELSE /\ ClearDirtyAndReturn(c.recovered, r)
                    /\ UNCHANGED <<start, fetches>>
    /\ UNCHANGED <<params, unity_instance, clock, transport_calls, last_advice,
                   marked_after_ready>>
    /\ UNCHANGED otherVars

\* The awaited send raises.
SendRaises ==
    /\ pc = "send"
    /\ pc' = "raised"
    /\ UNCHANGED <<params, unity_instance, response, recovered_from_disconnect,
                   ready_confirmed, start, clock, dirty, ret, transport_calls,
                   fetches, last_advice, clear_calls, clear_outcome, marked_after_ready>>
    /\ UNCHANGED otherVars

\* Mutant: the flag of the given instance is cleared after every fetch, ready or not.
FetchReturns_clears_early(advice, took) ==
    /\ pc = "fetch"
    /\ clock' = clock + took
    /\ last_advice' = advice
    /\ IF AdviceConfirmsReady(advice)
       THEN /\ ready_confirmed' = TRUE
            /\ ClearDirtyAndReturn(recovered_from_disconnect, response)
       ELSE /\ pc' = "sleep"
            /\ IF unity_instance # None
               THEN ClearFor(unity_instance)
               ELSE UNCHANGED <<dirty, clear_calls, clear_outcome>>
            /\ UNCHANGED <<ready_confirmed, ret>>
    /\ UNCHANGED <<params, unity_instance, response, recovered_from_disconnect, start,
                   transport_calls, fetches, marked_after_ready>>
    /\ UNCHANGED otherVars

\* Lines 109-127 and, on success, 138-153: get_editor_state has returned.
FetchReturns(advice, took) ==
    /\ pc = "fetch"
    /\ clock' = clock + took
    /\ last_advice' = advice
    /\ IF AdviceConfirmsReady(advice)
       THEN /\ ready_confirmed' = TRUE
            /\ ClearDirtyAndReturn(recovered_from_disconnect, response)
       ELSE /\ pc' = "sleep"
            /\ UNCHANGED <<ready_confirmed, dirty, clear_calls, clear_outcome, ret>>
    /\ UNCHANGED <<params, unity_instance, response, recovered_from_disconnect, start,
                   transport_calls, fetches, marked_after_ready>>
    /\ UNCHANGED otherVars

\* get_editor_state raises inside the loop.
FetchRaises ==
    /\ pc = "fetch"
    /\ pc' = "raised"
    /\ UNCHANGED <<params, unity_instance, response, recovered_from_disconnect,
                   ready_confirmed, start, clock, dirty, ret, transport_calls,
                   fetches, last_advice, clear_calls, clear_outcome, marked_after_ready>>
    /\ UNCHANGED otherVars

\* Mutant: the sleep returns with the clock where it was.
SleepReturns_frozen_clock ==
    /\ pc = "sleep"
    /\ clock' = clock
    /\ EnterLoop(clock', start)
    /\ UNCHANGED <<params, unity_instance, response, recovered_from_disconnect,
                   ready_confirmed, start, dirty, transport_calls,
                   last_advice, clear_calls, clear_outcome, marked_after_ready>>
    /\ UNCHANGED otherVars

\* Lines 127, 108 and 130-136: the sleep is over, the loop condition is read.
SleepReturns ==
    /\ pc = "sleep"
    /\ clock' = clock + PollIntervalTicks
    /\ EnterLoop(clock', start)
    /\ UNCHANGED <<params, unity_instance, response, recovered_from_disconnect,
                   ready_confirmed, start, dirty, transport_calls,
                   last_advice, clear_calls, clear_outcome, marked_after_ready>>
    /\ UNCHANGED otherVars

\* Lines 140-153: infer_single_instance_id has returned inst (None: not resolved).
InferReturns(inst) ==
    /\ pc = "infer"
    /\ IF inst # None
       THEN ClearFor(inst)
       ELSE clear_outcome' = "unresolved" /\ UNCHANGED <<dirty, clear_calls>>
    /\ Return(recovered_from_disconnect, response)
    /\ UNCHANGED <<params, unity_instance, response, recovered_from_disconnect,
                   ready_confirmed, start, clock, transport_calls, fetches, last_advice,
                   marked_after_ready>>
    /\ UNCHANGED otherVars

\* Mutant: the exception of infer_single_instance_id leaves the call.
InferRaises_propagates ==
    /\ pc = "infer"
    /\ pc' = "raised"
    /\ clear_outcome' = "infer_raised"
    /\ UNCHANGED <<params, unity_instance, response, recovered_from_disconnect,
                   ready_confirmed, start, clock, dirty, ret, transport_calls, fetches,
                   last_advice, clear_calls, marked_after_ready>>
    /\ UNCHANGED otherVars

\* Lines 143-153: infer_single_instance_id raises; the exception is swallowed.
InferRaises ==
    /\ pc = "infer"
    /\ Return(recovered_from_disconnect, response)
    /\ clear_outcome' = "infer_raised"
    /\ UNCHANGED <<params, unity_instance, response, recovered_from_disconnect,
                   ready_confirmed, start, clock, dirty, transport_calls, fetches,
                   last_advice, clear_calls, marked_after_ready>>
    /\ UNCHANGED otherVars

\* Another request marks an instance dirty (an external change was seen) while
\* the call is running or before it starts.
MarkDirty(inst) ==
    /\ pc \notin {"done", "raised"}
    /\ dirty' = mark_dirty(dirty, inst)
    /\ marked_after_ready' =
         IF ready_confirmed THEN marked_after_ready \cup {inst} ELSE marked_after_ready
    /\ UNCHANGED <<pc, params, unity_instance, response, recovered_from_disconnect,
                   ready_confirmed, start, clock, ret, transport_calls, fetches,
                   last_advice, clear_calls, clear_outcome>>
    /\ UNCHANGED otherVars

Next ==
    \/ \E c \in {"none", "request"}, w \in BOOLEAN, u \in {None, "A"} : Call(c, w, u)
    \/ \E r \in Responses : SendReturns(r)
    \/ SendRaises
    \/ \E a \in Advices, d \in {0, SlowFetch} : FetchReturns(a, d)
    \/ FetchRaises
    \/ SleepReturns
    \/ \E i \in Instances \cup {None} : InferReturns(i)
    \/ InferRaises
    \/ \E i \in Instances : MarkDirty(i)

Spec == Init /\ [][Next]_vars

\* The responses the fair specification sends back: a success of each kind, an
\* expected disconnect, a retryable failure and a fatal one.
LiveResponses ==
    SucceededResponses
    \cup {Failure("dict", T_ConnectionClosed, <<>>, None, NoData),
          Failure("dict", T_InvalidMode, <<>>, "retry", NoData),
          Failure("dict", T_InvalidMode, <<>>, None, NoData)}

\* The steps that resume the call: every await of lines 51, 109, 127 and 140
\* ends, by a value or by an exception.
Progress ==
    \/ \E r \in LiveResponses : SendReturns(r)
    \/ SendRaises
    \/ \E a \in Advices, d \in {0, SlowFetch} : FetchReturns(a, d)
    \/ FetchRaises
    \/ SleepReturns
    \/ \E i \in Instances \cup {None} : InferReturns(i)
    \/ InferRaises

\* The call on its own.
LiveNext ==
    \/ \E c \in {"none", "request"}, w \in BOOLEAN, u \in {None, "A"} : Call(c, w, u)
    \/ Progress

\* The event loop resumes a coroutine whose awaited operation has ended.
LiveSpec == Init /\ [][LiveNext]_vars /\ WF_vars(Progress)

\* ---------------------------------------------------------------- the dirty store
\* mark_dirty(inst) is called on the store.
StoreMark(inst) ==
    /\ Len(store_log) < MaxStoreOps
    /\ dirty' = mark_dirty(dirty, inst)
    /\ store_log' = Append(store_log, [op |-> "mark", inst |-> inst])
    /\ UNCHANGED <<callVars, shouldVars, nudgeVars, cliVars>>

\* clear_dirty(inst) is called on the store.
StoreClear(inst) ==
    /\ Len(store_log) < MaxStoreOps
    /\ dirty' = clear_dirty(dirty, inst)
    /\ store_log' = Append(store_log, [op |-> "clear", inst |-> inst])
    /\ UNCHANGED <<callVars, shouldVars, nudgeVars, cliVars>>

StoreNext ==
    \/ \E i \in Instances : StoreMark(i)
    \/ \E i \in Instances : StoreClear(i)

\* Any sequence of marks and clears on a store that starts with no flag set.
StoreSpec == Init /\ [][StoreNext]_vars

\* ---------------------------------------------------------------- the stall heuristic
\* Mutant: the focus of the editor is not looked at.
should_nudge_ignores_focus(status, editor_is_focused, last_update_unix_ms, current_time_ms, stall_threshold_ms, wall_ms) ==
    IF status # "running" THEN FALSE
    ELSE IF last_update_unix_ms = <<>> THEN TRUE
    ELSE LET current == IF current_time_ms = <<>> THEN wall_ms ELSE current_time_ms[1]
         IN  current - last_update_unix_ms[1] > stall_threshold_ms

\* Mutant: a job without a last update is taken as fresh.
should_nudge_absent_is_fresh(status, editor_is_focused, last_update_unix_ms, current_time_ms, stall_threshold_ms, wall_ms) ==
    IF status # "running" THEN FALSE
    ELSE IF editor_is_focused THEN FALSE
    ELSE IF last_update_unix_ms = <<>> THEN FALSE
    ELSE LET current == IF current_time_ms = <<>> THEN wall_ms ELSE current_time_ms[1]
         IN  current - last_update_unix_ms[1] > stall_threshold_ms

\* Mutant: a silence equal to the threshold counts as a stall.
should_nudge_at_threshold(status, editor_is_focused, last_update_unix_ms, current_time_ms, stall_threshold_ms, wall_ms) ==
    IF status # "running" THEN FALSE
    ELSE IF editor_is_focused THEN FALSE
    ELSE IF last_update_unix_ms = <<>> THEN TRUE
    ELSE LET current == IF current_time_ms = <<>> THEN wall_ms ELSE current_time_ms[1]
         IN  current - last_update_unix_ms[1] >= stall_threshold_ms

\* focus_nudge.py lines 285-321; wall_ms is int(time.time() * 1000), read at line
\* 318 when current_time_ms is None.
should_nudge(status, editor_is_focused, last_update_unix_ms, current_time_ms, stall_threshold_ms, wall_ms) ==
    IF status # "running" THEN FALSE
    ELSE IF editor_is_focused THEN FALSE
    ELSE IF last_update_unix_ms = <<>> THEN TRUE
    ELSE LET current == IF current_time_ms = <<>> THEN wall_ms ELSE current_time_ms[1]
             time_since_update_ms == current - last_update_unix_ms[1]
         IN  time_since_update_ms > stall_threshold_ms

\* The arguments a call can be made with.
ShouldNudgeArgs ==
    [status : Statuses, editor_is_focused : BOOLEAN,
     last_update_unix_ms : Optional(TimesMs), current_time_ms : Optional(TimesMs),
     stall_threshold_ms : ThresholdsMs]

\* A call of should_nudge is about to be made with arguments drawn from the sets.
ShouldNudgeInit ==
    /\ RefreshInit
    /\ store_log = <<>>
    /\ sn_args \in ShouldNudgeArgs
    /\ sn_wall = <<>>
    /\ sn_result = <<>>
    /\ NudgeInit
    /\ ToolRest
    /\ TransportRest

\* Line 318 is reached: current_time_ms is None where the time is needed.
ReadsWallClock(a) ==
    /\ a.status = "running"
    /\ ~a.editor_is_focused
    /\ a.last_update_unix_ms # <<>>
    /\ a.current_time_ms = <<>>

\* should_nudge runs on the arguments; wall_ms is what time.time() gives.
ShouldNudgeCall(wall_ms) ==
    /\ sn_args # NoValue
    /\ sn_result = <<>>
    /\ sn_wall' = IF ReadsWallClock(sn_args) THEN <<wall_ms>> ELSE <<>>
    /\ sn_result' = <<should_nudge(sn_args.status, sn_args.editor_is_focused,
                                   sn_args.last_update_unix_ms, sn_args.current_time_ms,
                                   sn_args.stall_threshold_ms, wall_ms)>>
    /\ UNCHANGED <<refreshVars, storeVars, nudgeVars, cliVars, sn_args>>

ShouldNudgeNext == \E w \in TimesMs : ShouldNudgeCall(w)

\* One call of should_nudge on any arguments.
ShouldNudgeSpec == ShouldNudgeInit /\ [][ShouldNudgeNext]_vars

\* ---------------------------------------------------------------- the focus nudge
\* Mutant: the rate limit is not applied.
RateLimited_off(force, now, last) == FALSE

\* Line 249: not force and (now - _last_nudge_time) < _MIN_NUDGE_INTERVAL_S
RateLimited(force, now, last) == ~force /\ (now - last) < _MIN_NUDGE_INTERVAL_S

\* What a step of nudge_unity_focus did: the outcome, the _focus_app calls it
\* made (target and result) and the value it returned, if it returned.
Step(kind, force, outcome, focus_calls, returned) ==
    [kind |-> kind, force |-> force, outcome |-> outcome, focus_calls |-> focus_calls,
     returned |-> returned]

\* Mutant: an early return also takes the clock reading as the last nudge time.
Skip_consumes_window(force, outcome) ==
    /\ nudge_step' = Step("call", force, outcome, <<>>, <<FALSE>>)
    /\ _last_nudge_time' = monotonic
    /\ UNCHANGED <<frontmost, nudge_pc, original_app, wake_at, last_focus_time>>

\* Lines 243-262, one of the early returns: nothing is changed, False is returned.
Skip(force, outcome) ==
    /\ nudge_step' = Step("call", force, outcome, <<>>, <<FALSE>>)
    /\ UNCHANGED <<_last_nudge_time, frontmost, nudge_pc, original_app, wake_at,
                   last_focus_time>>

\* Mutant: _last_nudge_time is set after _focus_app("Unity") has succeeded, not before.
NudgeCall_window_on_success(p, focus_duration_s, force, available, seen, focused) ==
    /\ nudge_pc[p] = "idle"
    /\ LET now == monotonic IN
       IF ~available THEN Skip(force, "unavailable")
       ELSE IF RateLimited(force, now, _last_nudge_time) THEN Skip(force, "rate_limited")
       ELSE IF ~seen THEN Skip(force, "frontmost_unknown")
       ELSE IF Contains(A_Unity, _get_frontmost_app(system, frontmost))
       THEN Skip(force, "already_focused")
       ELSE IF focused
            THEN /\ _last_nudge_time' = now
                 /\ frontmost' = A_Unity
                 /\ nudge_pc' = [nudge_pc EXCEPT ![p] = "sleep"]
                 /\ original_app' =
                      [original_app EXCEPT ![p] = <<_get_frontmost_app(system, frontmost)>>]
                 /\ wake_at' = [wake_at EXCEPT ![p] = now + focus_duration_s]
                 /\ last_focus_time' = <<now>>
                 /\ nudge_step' =
                      Step("call", force, "nudged", <<[app |-> A_Unity, ok |-> TRUE]>>, <<>>)
            ELSE /\ nudge_step' =
                      Step("call", force, "focus_failed",
                           <<[app |-> A_Unity, ok |-> FALSE]>>, <<FALSE>>)
                 /\ UNCHANGED <<_last_nudge_time, frontmost, nudge_pc, original_app, wake_at,
                                last_focus_time>>
    /\ UNCHANGED <<system, monotonic, refreshVars, storeVars, shouldVars, cliVars>>

\* Lines 241-273: caller p calls nudge_unity_focus(focus_duration_s, force).
\* available is what _is_available() gives, seen whether _get_frontmost_app()
\* gives a name, focused whether _focus_app("Unity") succeeds.
NudgeCall(p, focus_duration_s, force, available, seen, focused) ==
    /\ nudge_pc[p] = "idle"
    /\ LET now == monotonic IN
       IF ~available THEN Skip(force, "unavailable")
       ELSE IF RateLimited(force, now, _last_nudge_time) THEN Skip(force, "rate_limited")
       ELSE IF ~seen THEN Skip(force, "frontmost_unknown")
       ELSE IF Contains(A_Unity, _get_frontmost_app(system, frontmost))
       THEN Skip(force, "already_focused")
       ELSE /\ _last_nudge_time' = now
            /\ IF focused
               THEN /\ frontmost' = A_Unity
                    /\ nudge_pc' = [nudge_pc EXCEPT ![p] = "sleep"]
                    /\ original_app' =
                         [original_app EXCEPT ![p] = <<_get_frontmost_app(system, frontmost)>>]
                    /\ wake_at' = [wake_at EXCEPT ![p] = now + focus_duration_s]
                    /\ last_focus_time' = <<now>>
                    /\ nudge_step' =
                         Step("call", force, "nudged", <<[app |-> A_Unity, ok |-> TRUE]>>, <<>>)
               ELSE /\ nudge_step' =
                         Step("call", force, "focus_failed",
                              <<[app |-> A_Unity, ok |-> FALSE]>>, <<FALSE>>)
                    /\ UNCHANGED <<frontmost, nudge_pc, original_app, wake_at,
                                   last_focus_time>>
    /\ UNCHANGED <<system, monotonic, refreshVars, storeVars, shouldVars, cliVars>>

\* Mutant: a restore that fails makes the call return False.
NudgeWake_escalates(p, restored) ==
    /\ nudge_pc[p] = "sleep"
    /\ monotonic >= wake_at[p]
    /\ LET app == original_app[p][1] IN
       IF app # A_Empty /\ app # A_Unity
       THEN /\ frontmost' = IF restored THEN Focused(system, app) ELSE frontmost
            /\ nudge_step' =
                 Step("wake", FALSE, "returned_focus",
                      <<[app |-> app, ok |-> restored]>>, <<restored>>)
       ELSE /\ nudge_step' = Step("wake", FALSE, "no_return", <<>>, <<TRUE>>)
            /\ UNCHANGED frontmost
    /\ nudge_pc' = [nudge_pc EXCEPT ![p] = "idle"]
    /\ original_app' = [original_app EXCEPT ![p] = <<>>]
    /\ wake_at' = [wake_at EXCEPT ![p] = 0]
    /\ UNCHANGED <<system, monotonic, _last_nudge_time, last_focus_time,
                   refreshVars, storeVars, shouldVars, cliVars>>

\* Lines 275-282: the sleep of caller p is over; restored is whether
\* _focus_app(original_app) succeeds.
NudgeWake(p, restored) ==
    /\ nudge_pc[p] = "sleep"
    /\ monotonic >= wake_at[p]
    /\ LET app == original_app[p][1] IN
       IF app # A_Empty /\ app # A_Unity
       THEN /\ frontmost' = IF restored THEN Focused(system, app) ELSE frontmost
            /\ nudge_step' =
                 Step("wake", FALSE, "returned_focus",
                      <<[app |-> app, ok |-> restored]>>, <<TRUE>>)
       ELSE /\ nudge_step' = Step("wake", FALSE, "no_return", <<>>, <<TRUE>>)
            /\ UNCHANGED frontmost
    /\ nudge_pc' = [nudge_pc EXCEPT ![p] = "idle"]
    /\ original_app' = [original_app EXCEPT ![p] = <<>>]
    /\ wake_at' = [wake_at EXCEPT ![p] = 0]
    /\ UNCHANGED <<system, monotonic, _last_nudge_time, last_focus_time,
                   refreshVars, storeVars, shouldVars, cliVars>>

\* A second of the monotonic clock passes.
NudgeTick ==
    /\ monotonic < MaxMonotonic
    /\ monotonic' = monotonic + 1
    /\ nudge_step' = NoStep
    /\ UNCHANGED <<system, _last_nudge_time, frontmost, nudge_pc, original_app, wake_at,
                   last_focus_time, refreshVars, storeVars, shouldVars, cliVars>>

\* The user brings another application to the foreground.
UserSwitch(app) ==
    /\ frontmost # app
    /\ frontmost' = app
    /\ nudge_step' = NoStep
    /\ UNCHANGED <<system, monotonic, _last_nudge_time, nudge_pc, original_app, wake_at,
                   last_focus_time, refreshVars, storeVars, shouldVars, cliVars>>

\* What the platform does in one call: _is_available(), then whether
\* _get_frontmost_app() gives a name, then whether _focus_app("Unity") succeeds; a
\* step that fails leaves the later ones uncalled.
PlatformRuns ==
    {<<FALSE, FALSE, FALSE>>, <<TRUE, FALSE, FALSE>>, <<TRUE, TRUE, FALSE>>,
     <<TRUE, TRUE, TRUE>>}

NudgeNext ==
    \/ \E p \in Callers, d \in {0, MaxFocusDuration}, f \in BOOLEAN, run \in PlatformRuns :
          NudgeCall(p, d, f, run[1], run[2], run[3])
    \/ \E p \in Callers, ok \in BOOLEAN : NudgeWake(p, ok)
    \/ NudgeTick
    \/ \E app \in Apps : UserSwitch(app)

\* The process runs on one of the systems.
NudgeSpecInit ==
    /\ RefreshInit
    /\ store_log = <<>>
    /\ sn_args = NoValue
    /\ sn_wall = <<>>
    /\ sn_result = <<>>
    /\ system \in Systems
    /\ NudgeRest
    /\ ToolRest
    /\ TransportRest

\* Any interleaving of nudge_unity_focus calls, clock seconds and user switches.
NudgeSpec == NudgeSpecInit /\ [][NudgeNext]_vars

\* ---------------------------------------------------------------- send_command
\* src/Server/src/cli/utils/config.py line 14: the default of cfg.timeout.
cfg_timeout == 30

CommandTypes == {"manage_script", "apply_text_edits", "refresh_unity"}

\* cfg.unity_instance: None, the empty text or an instance id.
ConfiguredInstances == {<<>>, <<"">>, <<"A">>}

TimeoutOverrides == {<<>>, <<0>>, <<5>>}

TransportArgs ==
    [command_type : CommandTypes, unity_instance : ConfiguredInstances,
     timeout : TimeoutOverrides]

\* Python's truth of an optional text: None and "" are false.
TruthyText(opt) == opt # <<>> /\ opt[1] # ""

\* Python's truth of an optional integer: None and 0 are false.
TruthyInt(opt) == opt # <<>> /\ opt[1] # 0

\* connection.py lines 63-69: the payload of the request.  params is passed through
\* unread and is left out.
Payload(a) ==
    IF TruthyText(a.unity_instance)
    THEN [type |-> a.command_type, unity_instance |-> a.unity_instance[1]]
    ELSE [type |-> a.command_type]

\* connection.py line 76: timeout or cfg.timeout.
EffectiveTimeout(a) == IF TruthyInt(a.timeout) THEN a.timeout[1] ELSE cfg_timeout

\* httpx raise_for_status: only a 2xx status passes.
HttpStatuses == {200, 404, 500}

is_success(status) == status \in 200..299

\* What the awaited post can raise.
PostExceptions == {"ConnectError", "TimeoutException", "OtherException"}

UnityConnectionError(why) == [kind |-> "raised", exc |-> "UnityConnectionError", why |-> why]

\* connection.py lines 80-96: the except clauses, in their order.
Surface(exc) ==
    CASE exc = "ConnectError" -> UnityConnectionError("cannot_connect")
      [] exc = "TimeoutException" -> UnityConnectionError("timed_out")
      [] exc = "HTTPStatusError" -> UnityConnectionError("http_error")
      [] OTHER -> UnityConnectionError("unexpected")

\* connection.py lines 60-77: the payload is built and the request posted.
SendCommandCall ==
    /\ tr_pc = "idle"
    /\ tr_args # <<>>
    /\ tr_requests' = Append(tr_requests, [url |-> "/api/command", json |-> Payload(tr_args),
                                           timeout |-> EffectiveTimeout(tr_args)])
    /\ tr_pc' = "posting"
    /\ UNCHANGED <<tr_args, tr_result, refreshVars, storeVars, shouldVars, nudgeVars, toolVars>>

\* The same, with a second post when the first one timed out.
PostRaises_retries_timeout(exc) ==
    /\ tr_pc = "posting"
    /\ IF exc = "TimeoutException" /\ Len(tr_requests) < 2
       THEN /\ tr_requests' = Append(tr_requests, tr_requests[1])
            /\ UNCHANGED <<tr_pc, tr_result>>
       ELSE /\ tr_result' = Surface(exc)
            /\ tr_pc' = "done"
            /\ UNCHANGED tr_requests
    /\ UNCHANGED <<tr_args, refreshVars, storeVars, shouldVars, nudgeVars, toolVars>>

\* connection.py lines 73-77 and 80-96: the post raises; the except clause that
\* matches raises UnityConnectionError.
PostRaises(exc) ==
    /\ tr_pc = "posting"
    /\ tr_result' = Surface(exc)
    /\ tr_pc' = "done"
    /\ UNCHANGED <<tr_args, tr_requests, refreshVars, storeVars, shouldVars, nudgeVars, toolVars>>

\* connection.py lines 78-79: the post returns; raise_for_status and response.json()
\* either pass or raise into the except clauses.
PostReturns(status, body) ==
    /\ tr_pc = "posting"
    /\ tr_result' = IF ~is_success(status) THEN Surface("HTTPStatusError")
                    ELSE IF body = <<>> THEN Surface("JSONDecodeError")
                    ELSE [kind |-> "returned", value |-> body[1]]
    /\ tr_pc' = "done"
    /\ UNCHANGED <<tr_args, tr_requests, refreshVars, storeVars, shouldVars, nudgeVars, toolVars>>

\* The bodies a response can carry: not JSON, or a JSON object.
Bodies == {<<>>, <<[success |-> TRUE]>>, <<[success |-> FALSE]>>}

TransportNext ==
    \/ SendCommandCall
    \/ \E exc \in PostExceptions : PostRaises(exc)
    \/ \E status \in HttpStatuses, body \in Bodies : PostReturns(status, body)

\* One send_command call, its arguments drawn from the sets.
TransportInit ==
    /\ RefreshInit
    /\ store_log = <<>>
    /\ sn_args = NoValue
    /\ sn_wall = <<>>
    /\ sn_result = <<>>
    /\ NudgeInit
    /\ ToolRest
    /\ tr_args \in TransportArgs
    /\ tr_pc = "idle"
    /\ tr_requests = <<>>
    /\ tr_result = <<>>

TransportSpec == TransportInit /\ [][TransportNext]_vars

\* ---------------------------------------------------------------- the script tools
\* The calls one behaviour makes of the script tools and of the CLI edit command.
MaxToolCalls == 3

U_Prefix == <<"m", "c", "p", "f", "o", "r", "u", "n", "i", "t", "y", ":", "/", "/", "p", "a", "t", "h", "/">>

U_A == U_Prefix \o <<"A", "s", "s", "e", "t", "s", "/", "S", "c", "r", "i", "p", "t", "s", "/", "A", ".", "c", "s">>

U_F == U_Prefix \o <<"A", "s", "s", "e", "t", "s", "/", "S", "c", "r", "i", "p", "t", "s", "/", "F", ".", "c", "s">>

P_Player == <<"A", "s", "s", "e", "t", "s", "/", "P", "l", "a", "y", "e", "r", ".", "c", "s">>

U_Hud == U_Prefix \o <<"A", "s", "s", "e", "t", "s", "/", "U", "I", "/", "H", "u", "d", ".", "v", "2", ".", "c", "s">>

\* The raw edit of the tests (lines 25-30), and an edit given in 1-based coordinates.
ZeroEdit == [startLine |-> 0, startCol |-> 0, endLine |-> 0, endCol |-> 0, newText |-> "//x"]

OneBasedEdit == [startLine |-> 1, startCol |-> 2, endLine |-> 3, endCol |-> 4, newText |-> "//y"]

EditLists == {<<ZeroEdit>>, <<OneBasedEdit>>, <<OneBasedEdit, ZeroEdit>>}

Hashes == {"sha", "sha2"}

CoordFields == {"startLine", "startCol", "endLine", "endCol"}

\* The explicit coordinates of a raw edit are all 0.
all_zero(e) == \A f \in CoordFields : e[f] = 0

\* A 0-based edit moved to the 1-based convention.
shift(e) == [f \in DOMAIN e |-> IF f \in CoordFields THEN e[f] + 1 ELSE e[f]]

\* The edits in their order, the all-zero ones shifted.
Shifted(edits) == [i \in 1..Len(edits) |-> IF all_zero(edits[i]) THEN shift(edits[i]) ELSE edits[i]]

Rejection(code) == [rejected |-> TRUE, code |-> code, edits |-> <<>>, warnings |-> {}]

Accepted(edits, warnings) == [rejected |-> FALSE, code |-> "", edits |-> edits, warnings |-> warnings]

\* The same, but the zero fields are shifted without a warning.
normalize_silent(edits, strict) ==
    IF \E i \in 1..Len(edits) : all_zero(edits[i])
    THEN IF strict
         THEN Rejection("zero_based_explicit_fields")
         ELSE Accepted(Shifted(edits), {})
    ELSE Accepted(edits, {})

\* The same, but the warning is given only by the first call of the tool.
normalize_warns_once(edits, strict) ==
    IF \E i \in 1..Len(edits) : all_zero(edits[i])
    THEN IF strict
         THEN Rejection("zero_based_explicit_fields")
         ELSE Accepted(Shifted(edits),
                       IF \E k \in 1..Len(tool_log) : tool_log[k].tool = "apply_text_edits"
                       THEN {} ELSE {"zero_based_explicit_fields_normalized"})
    ELSE Accepted(edits, {})

\* normalize(edits, strict): a request with an all-zero edit is rejected when strict;
\* otherwise its all-zero edits are shifted by one, in place, and the warning is given.
normalize(edits, strict) ==
    IF \E i \in 1..Len(edits) : all_zero(edits[i])
    THEN IF strict
         THEN Rejection("zero_based_explicit_fields")
         ELSE Accepted(Shifted(edits),
                       {"zero_based_explicit_fields_normalized"})
    ELSE Accepted(edits, {})

\* What the peer answers to an edit command: applied, or refused because the file's
\* hash is no longer the precondition.
EditReplies == {[success |-> TRUE, code |-> ""], [success |-> FALSE, code |-> "stale_file"]}

\* The outgoing edit command of the tool.
EditCommand(uri, edits, sha) ==
    [type |-> "apply_text_edits",
     params |-> [uri |-> uri, edits |-> edits, precondition_sha256 |-> sha]]

\* The same, but a rejected request is sent to the peer as it came.
apply_text_edits_sends_rejected(uri, edits, sha, strict, reply) ==
    LET n == normalize(edits, strict) IN
    IF n.rejected
    THEN [sent |-> <<EditCommand(uri, edits, sha)>>,
          result |-> [success |-> FALSE, code |-> n.code, data |-> <<>>]]
    ELSE [sent |-> <<EditCommand(uri, n.edits, sha)>>,
          result |-> [success |-> reply.success, code |-> reply.code,
                      data |-> [normalizedEdits |-> n.edits, warnings |-> n.warnings]]]

\* apply_text_edits(ctx, uri, edits, precondition_sha256, strict): the commands it sends
\* and the response it returns, given the peer's reply.
apply_text_edits(uri, edits, sha, strict, reply) ==
    LET n == normalize(edits, strict) IN
    IF n.rejected
    THEN [sent |-> <<>>,
          result |-> [success |-> FALSE, code |-> n.code, data |-> <<>>]]
    ELSE [sent |-> <<EditCommand(uri, n.edits, sha)>>,
          result |-> [success |-> reply.success, code |-> reply.code,
                      data |-> [normalizedEdits |-> n.edits, warnings |-> n.warnings]]]

\* One call of the tool.
ApplyTextEdits(uri, edits, sha, strict, reply) ==
    /\ Len(tool_log) < MaxToolCalls
    /\ LET out == apply_text_edits(uri, edits, sha, strict, reply) IN
       tool_log' = Append(tool_log,
            [tool |-> "apply_text_edits",
             args |-> [uri |-> uri, edits |-> edits, precondition_sha256 |-> sha, strict |-> strict],
             sent |-> out.sent, result |-> out.result])
    /\ UNCHANGED <<refreshVars, storeVars, shouldVars, nudgeVars, transportVars>>

\* script.py lines 174-208: the CLI edit command.  edits is <<>> when the --edits text
\* is not JSON; reply is <<>> when run_command raises UnityConnectionError.
CliEdit(path, edits, reply) ==
    /\ Len(tool_log) < MaxToolCalls
    /\ tool_log' = Append(tool_log,
            [tool |-> "cli_edit",
             args |-> [uri |-> path, edits |-> edits],
             sent |-> IF edits = <<>> THEN <<>>
                      ELSE <<[type |-> "apply_text_edits",
                              params |-> [uri |-> path, edits |-> edits[1]]]>>,
             result |-> IF edits = <<>> \/ reply = <<>>
                        THEN [exit |-> 1, printed |-> <<>>]
                        ELSE [exit |-> 0, printed |-> reply]])
    /\ UNCHANGED <<refreshVars, storeVars, shouldVars, nudgeVars, transportVars>>

\* The --edits texts of the CLI: not JSON, or a JSON array.
CliEdits == {<<>>, <<(<<ZeroEdit>>)>>, <<(<<OneBasedEdit>>)>>}

\* The index of the last c in s, 0 when there is none.
LastIndex(c, s) ==
    IF \E i \in 1..Len(s) : s[i] = c
    THEN CHOOSE i \in 1..Len(s) : s[i] = c /\ \A j \in (i + 1)..Len(s) : s[j] # c
    ELSE 0

\* The text after the scheme prefix, when the URI has it.
StripPrefix(uri) ==
    IF Len(uri) >= Len(U_Prefix) /\ SubSeq(uri, 1, Len(U_Prefix)) = U_Prefix
    THEN SubSeq(uri, Len(U_Prefix) + 1, Len(uri))
    ELSE uri

\* The directory of a script URI: what precedes the last "/".
Directory(uri) ==
    LET p == StripPrefix(uri) IN SubSeq(p, 1, LastIndex("/", p) - 1)

\* The file name of a script URI without its extension.
NameOf(uri) ==
    LET p == StripPrefix(uri)
        base == SubSeq(p, LastIndex("/", p) + 1, Len(p))
        dot == LastIndex(".", base)
    IN  IF dot > 1 THEN SubSeq(base, 1, dot - 1) ELSE base

ScriptUris == {U_A, U_Hud}

\* The sha256 and lengthBytes the peer reports.
Digests == {[sha256 |-> "abc", lengthBytes |-> 1], [sha256 |-> "def", lengthBytes |-> 20]}

\* test_get_sha.py line 16: the peer's answer to get_sha.
ShaReply(uri, digest) ==
    [success |-> TRUE,
     data |-> [sha256 |-> digest.sha256, lengthBytes |-> digest.lengthBytes,
               lastModifiedUtc |-> "2020-01-01T00:00:00Z", uri |-> uri,
               path |-> StripPrefix(uri)]]

\* The same, but the peer's data is returned whole.
get_sha_returns_all(uri, reply) ==
    [sent |-> <<[type |-> "manage_script",
                 params |-> [action |-> "get_sha", name |-> NameOf(uri), path |-> Directory(uri)]]>>,
     result |-> [success |-> TRUE, data |-> reply.data]]

\* get_sha(ctx, uri): the command it sends and the response it returns, given the
\* peer's reply.
get_sha(uri, reply) ==
    [sent |-> <<[type |-> "manage_script",
                 params |-> [action |-> "get_sha", name |-> NameOf(uri), path |-> Directory(uri)]]>>,
     result |-> [success |-> TRUE,
                 data |-> [sha256 |-> reply.data.sha256, lengthBytes |-> reply.data.lengthBytes]]]

\* One call of get_sha.
GetSha(uri, digest) ==
    /\ Len(tool_log) < MaxToolCalls
    /\ LET reply == ShaReply(uri, digest)
           out == get_sha(uri, reply) IN
       tool_log' = Append(tool_log,
            [tool |-> "get_sha", args |-> [uri |-> uri, reply |-> reply],
             sent |-> out.sent, result |-> out.result])
    /\ UNCHANGED <<refreshVars, storeVars, shouldVars, nudgeVars, transportVars>>

ToolNext ==
    \/ \E edits \in EditLists, sha \in Hashes, strict \in BOOLEAN, reply \in EditReplies :
            ApplyTextEdits(U_F, edits, sha, strict, reply)
    \/ \E edits \in CliEdits, reply \in {<<>>, <<[success |-> TRUE]>>} :
            CliEdit(P_Player, edits, reply)
    \/ \E uri \in ScriptUris, digest \in Digests : GetSha(uri, digest)

ToolSpec == Init /\ [][ToolNext]_vars

\* ---------------------------------------------------------------- what the claims speak of
\* The error text of a response: error, else message, lower-cased.
ErrorTextOf(r) == Lower(IF r.error # <<>> THEN r.error ELSE r.message)

IsFailed(r) == r.success_given /\ r.success = FALSE

HasLostConnectionText(r) ==
    \E phrase \in {S_connection_closed, S_disconnected, S_aborted, S_timeout} :
        Contains(phrase, ErrorTextOf(r))

HasReloadingReason(r) == "reason" \in DOMAIN r.data /\ r.data.reason = "reloading"

\* Failed responses that are a reload disconnect.
ReloadDisconnects ==
    {r \in Responses : IsFailed(r) /\ (HasLostConnectionText(r) \/ HasReloadingReason(r))}

\* Failed responses that ask for a retry.
RetryableFailures ==
    {r \in Responses :
        IsFailed(r) /\ (r.hint = "retry" \/ Contains(S_could_not_connect, ErrorTextOf(r)))}

\* The send has returned and its response has been classified.
Classified == pc \notin {"idle", "send", "raised"} \/ (pc = "raised" /\ response # NoValue)

\* C1: when compile = "request" and the send fails with connection-lost error text
\* ("connection closed", "disconnected", "aborted", "timeout", lower-cased) or with
\* reason "reloading", recovered_from_disconnect is true and the transport has been
\* invoked exactly once.
C1_ExpectedReloadRecoversWithoutResend ==
    (Classified /\ params.compile = "request" /\ response \in ReloadDisconnects)
        => (recovered_from_disconnect = TRUE /\ Len(transport_calls) = 1)

C1_Witness ==
    /\ pc = "done"
    /\ params.compile = "request"
    /\ response.error = T_Aborted
    /\ response.hint = None
    /\ recovered_from_disconnect
    /\ Len(transport_calls) = 1

\* C2: on every path of a call the command goes through the transport exactly once,
\* with retry_on_reload = False, and the call never comes back to the send step.
C2_SentExactlyOnce ==
    /\ pc # "idle" =>
         /\ Len(transport_calls) = 1
         /\ transport_calls[1] = [command |-> "refresh_unity", retry_on_reload |-> FALSE]
    /\ response # NoValue => pc # "send"

C2_Witness ==
    /\ pc = "done"
    /\ ret = TimeoutResponse
    /\ response \in ReloadDisconnects
    /\ Len(transport_calls) = 1

\* Failed responses that are neither of the two.
IsFatal(r, compile) ==
    /\ IsFailed(r)
    /\ ~(r \in ReloadDisconnects /\ compile = "request")
    /\ r \notin RetryableFailures

\* Retryable failures that are not an expected-reload disconnect.
IsRetryableOnly(r, compile) ==
    /\ r \in RetryableFailures
    /\ ~(r \in ReloadDisconnects /\ compile = "request")

\* The value v carries the fields of response r, each as it came.
SameAsResponse(v, r) ==
    /\ v.success = r.success
    /\ v.message = r.message
    /\ v.error = r.error
    /\ v.data = r.data
    /\ v.hint = r.hint

\* C3 (as claimed): for every compile and wait_for_ready, a call whose send failed
\* only by a reload disconnect, and whose wait did not time out, does not return
\* success = false.
C3_ReloadNeverReportedAsFailure ==
    (pc = "done" /\ response \in ReloadDisconnects /\ ret # TimeoutResponse)
        => ret.success = TRUE

\* C4: a fatal failure (failed, neither expected-reload nor retryable) is returned
\* at once with its fields unchanged, with no readiness fetch and no clear_dirty call.
C4_FatalReturnedUnchanged ==
    (Classified /\ IsFatal(response, params.compile))
        => /\ pc = "done"
           /\ SameAsResponse(ret, response)
           /\ fetches = 0
           /\ clear_calls = {}

C4_Witness ==
    /\ pc = "done"
    /\ params.wait_for_ready
    /\ unity_instance = "A"
    /\ response.error = T_InvalidMode
    /\ response.hint = None
    /\ ret.success = FALSE
    /\ ret.error = T_InvalidMode

\* C5: a retryable failure that is not an expected-reload disconnect is returned as
\* it came, with no readiness fetch and no clear_dirty call, when wait_for_ready is
\* false; when wait_for_ready is true the call goes to the readiness poll and the
\* command is not sent again.
C5_RetryableHandling ==
    (Classified /\ IsRetryableOnly(response, params.compile))
        => IF ~params.wait_for_ready
           THEN /\ pc = "done"
                /\ SameAsResponse(ret, response)
                /\ fetches = 0
                /\ clear_calls = {}
           ELSE /\ fetches >= 1
                /\ Len(transport_calls) = 1

C5_Witness ==
    /\ pc = "done"
    /\ params.wait_for_ready
    /\ params.compile = "none"
    /\ response.error = T_CouldNotConnect
    /\ fetches >= 1
    /\ ready_confirmed
    /\ Len(transport_calls) = 1

SendSucceeded == response # NoValue /\ response.success_given /\ response.success = TRUE

\* C6 (as claimed): when the send returns success = true the call returns with no
\* readiness fetch made.
C6_SuccessReturnsWithoutPoll ==
    (Classified /\ SendSucceeded) => fetches = 0

\* C6 (amended): when the send returns success = true and wait_for_ready is false,
\* no readiness fetch is made and that response is returned; when wait_for_ready is
\* true the readiness poll runs first, and the call returns that response once
\* readiness is confirmed, or the timeout failure when it is not.
C6_SuccessPollsOnlyWhenAsked ==
    (Classified /\ SendSucceeded)
        => /\ ~recovered_from_disconnect
           /\ ~params.wait_for_ready => (fetches = 0 /\ pc \in {"infer", "done"})
           /\ params.wait_for_ready => fetches >= 1
           /\ pc = "done" =>
                IF params.wait_for_ready /\ ~ready_confirmed
                THEN ret = TimeoutResponse
                ELSE SameAsResponse(ret, response)

C6_Witness ==
    /\ pc = "done"
    /\ SendSucceeded
    /\ params.wait_for_ready
    /\ fetches >= 1
    /\ ready_confirmed
    /\ SameAsResponse(ret, response)

\* C7 (as claimed): a success result that carries the recovered_from_disconnect
\* marker is returned only after a readiness observation of this call confirmed
\* readiness.
C7_RecoveredOnlyAfterReadiness ==
    (pc = "done" /\ "recovered_from_disconnect" \in DOMAIN ret.data)
        => ready_confirmed

\* C8 (as claimed): every clear_dirty call of a refresh comes after a readiness
\* observation that succeeded, or after recovered_from_disconnect was set, in the
\* same call.
C8_ClearOnlyAfterReadiness ==
    clear_calls # {} => (ready_confirmed \/ recovered_from_disconnect)

\* The blocking reasons that mean the editor is busy.
BusyReasons == {"compiling", "domain_reload", "running_tests", "asset_import"}

LoopLeft == pc \in {"infer", "done", "raised"}

\* C9: the poll loop succeeds at the first observation whose advice has
\* ready_for_tools = true, whatever its blocking_reasons, and neither fetches nor
\* sleeps after it.
C9_ReadyForToolsEndsLoop ==
    /\ (last_advice.is_dict /\ last_advice.ready_for_tools)
          => (ready_confirmed /\ LoopLeft)
    /\ ready_confirmed => pc \notin {"fetch", "sleep"}

C9_Witness ==
    /\ pc = "done"
    /\ last_advice = Advice(TRUE, {"compiling"})
    /\ ready_confirmed
    /\ ret.success = TRUE

TimedOut == pc = "done" /\ params.wait_for_ready /\ ~ready_confirmed /\ fetches >= 1

\* The time the wait took, in ticks.
Elapsed == clock - start

\* C11 as stated: the timeout failure carries the elapsed time of the wait.
C11_TimeoutCarriesElapsed ==
    TimedOut =>
        /\ ret.success = FALSE
        /\ ret.data = [timeout |-> TRUE, wait_seconds |-> ret.data.wait_seconds]
        /\ ret.data.wait_seconds * TicksPerSecond = Elapsed

\* C11: when the poll loop reaches its timeout without confirming readiness the
\* call returns a failure marked as a timeout (success = false, data.timeout =
\* true) that carries the configured wait of 60 seconds, which the elapsed time
\* has reached or passed.
C11_TimeoutCarriesConfiguredWait ==
    TimedOut =>
        /\ ret.success = FALSE
        /\ ret.data = [timeout |-> TRUE, wait_seconds |-> timeout_s]
        /\ Elapsed >= timeout_s * TicksPerSecond

C11_Witness ==
    /\ TimedOut
    /\ ret = TimeoutResponse
    /\ Elapsed > timeout_s * TicksPerSecond

\* C12: with every awaited send, fetch, sleep and inference ending, every call
\* that has started ends and a call in the poll loop leaves it; a loop that was
\* left without an exception was left by readiness confirmed or by the timeout.
C12_CallEnds ==
    /\ (pc = "send") ~> (pc \in {"done", "raised"})
    /\ (pc \in {"fetch", "sleep"}) ~> (pc \in {"done", "raised"})
    /\ []((pc \in {"infer", "done"} /\ fetches >= 1)
            => (ready_confirmed \/ ret = TimeoutResponse))

C12_Witness ==
    /\ pc = "done"
    /\ fetches >= FetchCap
    /\ Elapsed >= timeout_s * TicksPerSecond

\* C13: a dirty mark set after the call's readiness confirmation is not erased
\* by the call's later clear_dirty.
C13_FreshMarkSurvivesClear ==
    \A i \in marked_after_ready : dirty[i]

\* The call ended by an exception of the transport send: no response came back.
RaisedBySend == pc = "raised" /\ response = NoValue

\* The call ended by an exception of a readiness fetch: the loop was running.
RaisedByFetch ==
    /\ pc = "raised"
    /\ response # NoValue
    /\ params.wait_for_ready
    /\ ~ready_confirmed

\* C14: no exception raised by the transport send or by a readiness fetch inside
\* the poll loop escapes the call.
C14_NoExceptionEscapes == ~RaisedBySend /\ ~RaisedByFetch

\* Lines 139-144 ended without the flag cleared.
ClearFailed == clear_outcome \in {"unresolved", "clear_raised", "infer_raised"}

\* How the call ends after lines 139-144, from what it held before them.
EndsAsAfterClear ==
    IF recovered_from_disconnect
    THEN pc = "done" /\ ret = RecoveredResponse
    ELSE IF response.kind = "dict" /\ ~response.success_given
    THEN pc = "raised"
    ELSE pc = "done" /\ SameAsResponse(ret, response)

\* C15: a failure while clearing the dirty flag (instance not resolved, clear_dirty
\* raising, instance inference raising) is swallowed: the call ends with the value
\* it ends with when the clear succeeds.
C15_ClearFailureSwallowed ==
    /\ clear_outcome = "cleared" => EndsAsAfterClear
    /\ ClearFailed => EndsAsAfterClear

C15_Witness ==
    /\ pc = "done"
    /\ clear_outcome = "infer_raised"
    /\ ret = RecoveredResponse

\* The operations of the log that were made on instance inst, in order.
OpsOn(inst) == SelectSeq(store_log, LAMBDA e : e.inst = inst)

\* The latest operation made on inst is a mark.
LastOpIsMark(inst) ==
    LET ops == OpsOn(inst) IN ops # <<>> /\ ops[Len(ops)].op = "mark"

\* C16: after any sequence of store operations is_dirty(X) holds exactly when
\* the latest operation on X is a mark: it is false until X is marked, false
\* after a mark followed by a clear, and a clear of a never-marked instance
\* changes no flag; a clear can always be made (it raises no error).
C16_DirtyStore ==
    \A i \in Instances :
        /\ is_dirty(dirty, i) = LastOpIsMark(i)
        /\ Len(store_log) < MaxStoreOps => ENABLED StoreClear(i)

C16_Witness ==
    /\ store_log = <<[op |-> "mark", inst |-> "B"], [op |-> "clear", inst |-> "A"],
                     [op |-> "mark", inst |-> "A"], [op |-> "clear", inst |-> "A"]>>
    /\ ~is_dirty(dirty, "A")
    /\ is_dirty(dirty, "B")

\* should_nudge has returned.
Returned == sn_args # NoValue /\ sn_result # <<>>

\* should_nudge has returned for a running job and an unfocused editor.
RunningUnfocused ==
    Returned /\ sn_args.status = "running" /\ ~sn_args.editor_is_focused

\* C17: should_nudge returns false for every input whose status is not "running"
\* and for every input whose editor_is_focused is true, whatever the last update
\* (absent too), the current time and the threshold are.
C17_NotRunningOrFocusedIsFalse ==
    (Returned /\ (sn_args.status # "running" \/ sn_args.editor_is_focused))
        => sn_result = <<FALSE>>

C17_Witness ==
    /\ Returned
    /\ sn_args.status = "running"
    /\ sn_args.editor_is_focused
    /\ sn_args.last_update_unix_ms = <<>>
    /\ sn_result = <<FALSE>>

\* C18: should_nudge returns true whenever the status is "running", the editor is
\* not focused and last_update_unix_ms is absent, for every current time and
\* threshold.
C18_AbsentUpdateIsTrue ==
    (RunningUnfocused /\ sn_args.last_update_unix_ms = <<>>) => sn_result = <<TRUE>>

C18_Witness ==
    /\ RunningUnfocused
    /\ sn_args.last_update_unix_ms = <<>>
    /\ sn_args.current_time_ms = <<0>>
    /\ sn_args.stall_threshold_ms = stall_threshold_ms_default
    /\ sn_result = <<TRUE>>

\* The current time the latest call computed with: the argument, or the wall clock.
CurrentTimeUsed ==
    IF sn_args.current_time_ms = <<>> THEN sn_wall[1] ELSE sn_args.current_time_ms[1]

\* C19: for status "running", the editor not focused and last_update_unix_ms
\* present, should_nudge returns true if and only if the current time minus the
\* last update is strictly greater than stall_threshold_ms; a difference equal to
\* the threshold returns false.
C19_StalledIffBeyondThreshold ==
    (RunningUnfocused /\ sn_args.last_update_unix_ms # <<>>) =>
        sn_result =
          <<CurrentTimeUsed - sn_args.last_update_unix_ms[1] > sn_args.stall_threshold_ms>>

C19_Witness ==
    /\ RunningUnfocused
    /\ sn_args.last_update_unix_ms = <<0>>
    /\ sn_args.current_time_ms = <<stall_threshold_ms_default>>
    /\ sn_args.stall_threshold_ms = stall_threshold_ms_default
    /\ sn_result = <<FALSE>>

\* The clock reads less than _MIN_NUDGE_INTERVAL_S seconds more than it did at the
\* latest call that focused Unity.
InsideWindow ==
    last_focus_time # <<>> /\ monotonic - last_focus_time[1] < _MIN_NUDGE_INTERVAL_S

\* C20: over any sequence of nudge_unity_focus calls, a call that is not forced and
\* is made less than 5 seconds (by the monotonic clock, as the calls read it) after
\* the previous nudge that focused Unity makes no focus call, leaves the
\* foreground as it is and returns False; a forced call is never stopped by the
\* rate limit.
C20_UnforcedNudgesRateLimited ==
    [][/\ (nudge_step'.kind = "call" /\ ~nudge_step'.force /\ InsideWindow)
            => /\ nudge_step'.returned = <<FALSE>>
               /\ nudge_step'.focus_calls = <<>>
               /\ frontmost' = frontmost
       /\ (nudge_step'.kind = "call" /\ nudge_step'.force)
            => nudge_step'.outcome # "rate_limited"]_vars

C20_Witness ==
    /\ InsideWindow
    /\ monotonic > last_focus_time[1]
    /\ nudge_step = Step("call", FALSE, "rate_limited", <<>>, <<FALSE>>)
    /\ \A p \in Callers : nudge_pc[p] = "idle"

\* C21: a nudge_unity_focus call made while Unity is the foreground application
\* issues no focus call and returns False.
C21_AlreadyForegroundIsNoOp ==
    [][(nudge_step'.kind = "call" /\ frontmost = A_Unity)
          => /\ nudge_step'.focus_calls = <<>>
             /\ nudge_step'.returned = <<FALSE>>]_vars

\* Caller p goes from the call to the sleep of line 273: its nudge is performed.
Nudges(p) == nudge_pc[p] = "idle" /\ nudge_pc'[p] = "sleep"

\* Caller p goes on after the sleep of line 273.
Wakes(p) == nudge_pc[p] = "sleep" /\ nudge_pc'[p] = "idle"

\* The step that performs a nudge records what was in the foreground, brings
\* Unity to the foreground and sets the hold to focus_duration_s.
RecordsThenFocuses(p) ==
    /\ original_app'[p] = <<_get_frontmost_app(system, frontmost)>>
    /\ nudge_step'.focus_calls = <<[app |-> A_Unity, ok |-> TRUE]>>
    /\ frontmost' = A_Unity
    /\ wake_at'[p] - monotonic \in {0, MaxFocusDuration}

\* The step after the sleep asks for the focus to go back to the recorded
\* application, whether the request succeeds or not.
RequestsFocusBack(p) ==
    \E ok \in BOOLEAN :
        /\ nudge_step'.focus_calls = <<[app |-> original_app[p][1], ok |-> ok]>>
        /\ frontmost' = IF ok THEN Focused(system, original_app[p][1]) ELSE frontmost

TransportEnded == tr_pc = "done"

ToolCalls(t) == {k \in 1..Len(tool_log) : tool_log[k].tool = t}

HasZeroEdit(edits) == \E i \in 1..Len(edits) : all_zero(edits[i])

\* The calls of apply_text_edits with an all-zero edit and the given strict flag.
ZeroEditCalls(strict) ==
    {k \in ToolCalls("apply_text_edits") :
        HasZeroEdit(tool_log[k].args.edits) /\ tool_log[k].args.strict = strict}

\* The response of call k carries the raw edits in their order, every all-zero one
\* with each coordinate one higher and its newText as it was, and the warning.
ShiftedAndWarned(k) ==
    LET raw == tool_log[k].args.edits
        data == tool_log[k].result.data
    IN  /\ data # <<>>
        /\ Len(data.normalizedEdits) = Len(raw)
        /\ \A i \in 1..Len(raw) :
              all_zero(raw[i]) =>
                 /\ \A f \in CoordFields : data.normalizedEdits[i][f] = raw[i][f] + 1
                 /\ data.normalizedEdits[i].newText = raw[i].newText
        /\ "zero_based_explicit_fields_normalized" \in data.warnings

SentNormalized(k) ==
    /\ Len(tool_log[k].sent) = 1
    /\ tool_log[k].sent[1].params.edits = tool_log[k].result.data.normalizedEdits

C24_StrictZeroEditsRejected ==
    \A k \in ZeroEditCalls(TRUE) :
        /\ tool_log[k].result.success = FALSE
        /\ tool_log[k].result.code = "zero_based_explicit_fields"
        /\ tool_log[k].result.data = <<>>
        /\ tool_log[k].sent = <<>>

\* The all-zero edit of the tests was sent with strict=true, beside an edit in 1-based
\* coordinates in a request of its own.
C24_Witness ==
    /\ \E k \in ZeroEditCalls(TRUE) : tool_log[k].args.edits = <<OneBasedEdit, ZeroEdit>>
    /\ \E k \in ToolCalls("apply_text_edits") :
          tool_log[k].args.strict /\ tool_log[k].sent # <<>>

\* The edit commands call k sent to the peer.
EditCommandsOf(k) ==
    {i \in 1..Len(tool_log[k].sent) : tool_log[k].sent[i].type = "apply_text_edits"}

\* C25: every outgoing edit command carries a precondition_sha256, and where the
\* caller supplied one it is the value carried.
C25_EditsCarryPrecondition ==
    \A k \in 1..Len(tool_log) : \A i \in EditCommandsOf(k) :
        /\ "precondition_sha256" \in DOMAIN tool_log[k].sent[i].params
        /\ "precondition_sha256" \in DOMAIN tool_log[k].args =>
              tool_log[k].sent[i].params.precondition_sha256 = tool_log[k].args.precondition_sha256

C28_GetShaShape ==
    \A k \in ToolCalls("get_sha") :
        LET c == tool_log[k] IN
        /\ Len(c.sent) = 1
        /\ c.sent[1].type = "manage_script"
        /\ c.sent[1].params.action = "get_sha"
        /\ \A i \in 1..Len(c.sent[1].params.name) : c.sent[1].params.name[i] # "/"
        /\ U_Prefix \o c.sent[1].params.path \o <<"/">> \o c.sent[1].params.name \o <<".", "c", "s">>
              = c.args.uri
        /\ c.result.success = TRUE
        /\ c.result.data = [sha256 |-> c.args.reply.data.sha256,
                            lengthBytes |-> c.args.reply.data.lengthBytes]

\* The call of the test: A.cs in Assets/Scripts, sha256 "abc" and lengthBytes 1.
C28_Witness ==
    \E k \in ToolCalls("get_sha") :
        /\ tool_log[k].args.uri = U_A
        /\ tool_log[k].sent[1].params.name = <<"A">>
        /\ tool_log[k].result.data = [sha256 |-> "abc", lengthBytes |-> 1]

\* The class of a failed response, expected-reload before retryable before fatal.
ClassOf(r, compile) ==
    IF r \in ReloadDisconnects /\ compile = "request" THEN "expected_reload"
    ELSE IF r \in RetryableFailures THEN "retryable"
    ELSE "fatal"

\* The call has returned the response of the send as it came, with no readiness
\* fetch made and recovered_from_disconnect unset.
ReturnedAsIs ==
    /\ pc = "done"
    /\ SameAsResponse(ret, response)
    /\ fetches = 0
    /\ ~recovered_from_disconnect

\* The call goes on as recovered: it never returns the failed response.
GoesOnRecovered ==
    /\ recovered_from_disconnect
    /\ pc = "done" => ret \in {RecoveredResponse, TimeoutResponse}

\* How the call handles its failed response, by what can be seen of the call.
HandledAs(class) ==
    CASE class = "expected_reload" -> GoesOnRecovered
      [] class = "retryable" -> IF params.wait_for_ready THEN GoesOnRecovered ELSE ReturnedAsIs
      [] class = "fatal" -> ReturnedAsIs

\* Failed responses with connection-lost text and the retry hint.
LostAndRetry == {r \in Responses : IsFailed(r) /\ HasLostConnectionText(r) /\ r.hint = "retry"}

\* Failed responses with connection-lost text, no "could not connect" and no retry hint.
LostOnly ==
    {r \in Responses :
        /\ IsFailed(r)
        /\ HasLostConnectionText(r)
        /\ ~Contains(S_could_not_connect, ErrorTextOf(r))
        /\ r.hint # "retry"}

\* C29: every failed response is handled as its one class, expected-reload before
\* retryable before fatal.  Connection-lost text with hint "retry" under
\* compile = "request" goes on as recovered whatever wait_for_ready is; connection-lost
\* text without "could not connect" and without the hint, under another compile, is
\* returned as it came.
C29_OneClassReloadFirst ==
    (Classified /\ IsFailed(response)) =>
        /\ HandledAs(ClassOf(response, params.compile))
        /\ (response \in LostAndRetry /\ params.compile = "request") => GoesOnRecovered
        /\ (response \in LostOnly /\ params.compile # "request") => ReturnedAsIs

\* Connection-lost text with the retry hint came back under compile = "request" and
\* wait_for_ready = false, and the call ended as recovered.
C29_Witness ==
    /\ pc = "done"
    /\ response \in LostAndRetry
    /\ params.compile = "request"
    /\ ~params.wait_for_ready
    /\ ret = RecoveredResponse

\* Failed responses with the retry hint.
RetryHinted == {r \in Responses : IsFailed(r) /\ r.hint = "retry"}

CarriesMarker(v) == "recovered_from_disconnect" \in DOMAIN v.data

\* C30 as stated: a call whose send failed with the retry hint under a compile other
\* than "request" never sets recovered_from_disconnect and never returns the marker.
C30_RetryHintNeverMarked ==
    (Classified /\ response \in RetryHinted /\ params.compile # "request") =>
        /\ ~recovered_from_disconnect
        /\ pc = "done" => ~CarriesMarker(ret)

\* C30: a call whose send failed with the retry hint under a compile other than
\* "request" returns the response unmarked when wait_for_ready is false; when
\* wait_for_ready is true it sets recovered_from_disconnect, and its result carries
\* the marker exactly when readiness was confirmed before the timeout.
C30_RetryHintMarkedOnlyWhenWaiting ==
    (Classified /\ response \in RetryHinted /\ params.compile # "request") =>
        IF ~params.wait_for_ready
        THEN ReturnedAsIs /\ ~CarriesMarker(ret)
        ELSE /\ recovered_from_disconnect
             /\ pc = "done" => (CarriesMarker(ret) <=> ready_confirmed)

\* Such a call waited, saw the editor ready and returned the marker.
C30_Witness ==
    /\ pc = "done"
    /\ response \in RetryHinted
    /\ params.compile # "request"
    /\ params.wait_for_ready
    /\ ready_confirmed
    /\ CarriesMarker(ret)

\* Lines 139-144 have been reached in this call: clear_dirty was called, or the
\* instance was being inferred, or the try block ended without a call.
ClearStepReached == clear_calls # {} \/ clear_outcome # "none" \/ pc = "infer"

\* C31: the steps of one call come in the order send, classify, poll, clear dirty,
\* return: a readiness fetch is made only after the send has returned, the clear step
\* is reached only after the poll loop, when asked for, has ended with readiness
\* confirmed, and nothing is cleared while the loop is fetching or sleeping; a value
\* is returned only at the end.
C31_StepsInOrder ==
    /\ fetches >= 1 => (response # NoValue /\ Len(transport_calls) = 1)
    /\ pc \in {"idle", "send"} => (fetches = 0 /\ ~ClearStepReached /\ ~ready_confirmed)
    /\ pc \in {"fetch", "sleep"} => (~ClearStepReached /\ ~ready_confirmed)
    /\ (ClearStepReached /\ params.wait_for_ready) => (ready_confirmed /\ fetches >= 1)
    /\ ret # NoValue => pc = "done"

\* A call that waited has sent, polled more than once, cleared and returned.
C31_Witness ==
    /\ pc = "done"
    /\ params.wait_for_ready
    /\ fetches >= 2
    /\ ready_confirmed
    /\ clear_calls = {"A"}
    /\ ret.success = TRUE

\* Another request acts while the call is under way: it marks an instance, and the
\* call stays where it is.
OtherRequestActs ==
    /\ pc' = pc
    /\ pc # "idle"
    /\ <<dirty, marked_after_ready>>' # <<dirty, marked_after_ready>>

\* C32 as stated: another request acts only while the call awaits the send or a
\* poll sleep.
C32_YieldsOnlyAtSendAndSleep == [][OtherRequestActs => pc \in {"send", "sleep"}]_vars

\* C32: another request acts only while the call awaits the send, a readiness
\* fetch, a poll sleep, or the inference of the instance id, and the last only in a
\* call that was given no unity_instance; classification, the loop test, the
\* readiness test, clear_dirty and the return let no other request in.
C32_YieldsOnlyAtAwaits ==
    [][OtherRequestActs =>
          /\ pc \in {"send", "fetch", "sleep", "infer"}
          /\ pc = "infer" => unity_instance = None
          /\ ready_confirmed => pc = "infer"]_vars

\* Another request has marked an instance while the call awaited the inference,
\* after readiness was confirmed.
C32_Witness ==
    /\ pc = "infer"
    /\ ready_confirmed
    /\ marked_after_ready # {}

\* C33: a call whose poll loop ran out of time returns the timeout failure, whether
\* the send had succeeded or recovered_from_disconnect was set, and in that call
\* clear_dirty is not called and lines 139-144 are not reached.
C33_TimeoutDominates ==
    TimedOut =>
        /\ ret = TimeoutResponse
        /\ ret.success = FALSE
        /\ ~CarriesMarker(ret)
        /\ clear_calls = {}
        /\ clear_outcome = "none"

\* A call that had recovered from a disconnect timed out, the given instance dirty.
C33_Witness ==
    /\ TimedOut
    /\ recovered_from_disconnect
    /\ unity_instance = "A"
    /\ dirty["A"]
    /\ ret = TimeoutResponse

\* The instances whose flag a step changes.
ChangedFlags == {i \in Instances : dirty'[i] # dirty[i]}

\* A step of the call itself, not of another request.
CallSteps == pc' # pc

\* C34: a step of the call changes the flag of no instance but the one it calls
\* clear_dirty for, and only to false; a call given unity_instance calls clear_dirty
\* for that id alone; a call given none calls it for at most one instance, the
\* inferred one, and for none when the inference resolves nothing.
C34_ClearsOnlyItsInstance ==
    [][/\ CallSteps =>
             /\ ChangedFlags \subseteq (clear_calls' \ clear_calls)
             /\ \A i \in ChangedFlags : dirty'[i] = FALSE
       /\ unity_instance' # None => clear_calls' \subseteq {unity_instance'}
       /\ Cardinality(clear_calls') <= 1
       /\ clear_outcome' \in {"unresolved", "infer_raised"} => clear_calls' = {}]_vars

\* A call given no instance cleared the inferred one and left the other dirty.
C34_Witness ==
    /\ pc = "done"
    /\ unity_instance = None
    /\ clear_calls = {"B"}
    /\ clear_outcome = "cleared"
    /\ marked_after_ready = {}
    /\ dirty["A"]
    /\ ~dirty["B"]

\* get_editor_state returns to the call in this step.
FetchStep == pc = "fetch" /\ pc' \notin {"fetch", "raised"}

\* C35: an observation whose advice is absent or not a mapping never confirms
\* readiness: the call goes to the poll sleep with ready_confirmed false and nothing
\* cleared; and a call that has ended after polling with such an observation as its
\* last has ended with the timeout failure.
C35_NonMappingAdviceNeverReady ==
    [][/\ (FetchStep /\ ~last_advice'.is_dict) =>
             /\ pc' = "sleep"
             /\ ~ready_confirmed'
             /\ UNCHANGED <<dirty, clear_calls, ret>>
       /\ (pc' = "done" /\ params'.wait_for_ready /\ fetches' >= 1 /\ ~last_advice'.is_dict) =>
             ret' = TimeoutResponse]_vars

\* A call polled more than once, saw no mapping last and ended with the timeout.
C35_Witness ==
    /\ pc = "done"
    /\ fetches >= 2
    /\ ~last_advice.is_dict
    /\ ret = TimeoutResponse

\* C36: a response without the success field is handled as a success: the call does
\* not return it at once and recovered_from_disconnect stays false; with
\* wait_for_ready the call polls, and reaches the clear step once readiness is
\* confirmed; without, it goes to the clear step directly.
C36_MissingSuccessIsSuccess ==
    (Classified /\ ~response.success_given) =>
        /\ ~recovered_from_disconnect
        /\ IF params.wait_for_ready
           THEN /\ fetches >= 1
                /\ ready_confirmed => ClearStepReached
           ELSE ClearStepReached

\* A call whose send returned no success field polled, saw the editor ready and
\* cleared the flag of its instance.
C36_Witness ==
    /\ response # NoValue
    /\ ~response.success_given
    /\ params.wait_for_ready
    /\ ready_confirmed
    /\ clear_calls = {"A"}
    /\ clear_outcome = "cleared"

\* The step is a nudge_unity_focus call that got past the four checks and called
\* _focus_app("Unity").
Attempts == nudge_step'.kind = "call" /\ nudge_step'.outcome \in {"nudged", "focus_failed"}

\* The step is a nudge_unity_focus call that returned early, at one of the four checks.
Skips ==
    /\ nudge_step'.kind = "call"
    /\ nudge_step'.outcome \in {"unavailable", "rate_limited", "frontmost_unknown", "already_focused"}

\* C37: a call that gets past the four checks takes its clock reading as the last
\* nudge time and calls _focus_app("Unity") once, forced or not and whether that focus
\* succeeds or not; the last nudge time changes in no other step; and an unforced
\* call made less than 5 seconds after it makes no focus call and returns False.
C37_WindowConsumedByAttempt ==
    [][/\ Attempts =>
             /\ _last_nudge_time' = monotonic
             /\ Len(nudge_step'.focus_calls) = 1
             /\ nudge_step'.outcome = "focus_failed" => nudge_step'.returned = <<FALSE>>
       /\ _last_nudge_time' # _last_nudge_time => Attempts
       /\ (nudge_step'.kind = "call" /\ ~nudge_step'.force
             /\ monotonic - _last_nudge_time < _MIN_NUDGE_INTERVAL_S) =>
             /\ nudge_step'.outcome \in {"unavailable", "rate_limited"}
             /\ nudge_step'.focus_calls = <<>>
             /\ nudge_step'.returned = <<FALSE>>]_vars

\* No focus of Unity has ever succeeded, an attempt was made earlier, and an unforced
\* call inside its window has just been turned away.
C37_Witness ==
    /\ last_focus_time = <<>>
    /\ _last_nudge_time > 0
    /\ monotonic > _last_nudge_time
    /\ monotonic - _last_nudge_time < _MIN_NUDGE_INTERVAL_S
    /\ nudge_step = Step("call", FALSE, "rate_limited", <<>>, <<FALSE>>)

\* C38: a call that returns early (platform unavailable, rate-limited, frontmost
\* unknown, Unity already focused) leaves the last nudge time and the foreground as
\* they were, makes no focus call and returns False.
C38_SkipsChangeNothing ==
    [][Skips =>
          /\ _last_nudge_time' = _last_nudge_time
          /\ frontmost' = frontmost
          /\ nudge_pc' = nudge_pc
          /\ nudge_step'.focus_calls = <<>>
          /\ nudge_step'.returned = <<FALSE>>]_vars

\* A forced call found Unity in the foreground, seconds after an earlier nudge.
C38_Witness ==
    /\ nudge_step = Step("call", TRUE, "already_focused", <<>>, <<FALSE>>)
    /\ _last_nudge_time > 0
    /\ _last_nudge_time < monotonic

\* C39: an unforced call made with the last nudge time at its initial value 0 is
\* not turned away by the rate limit, whatever the clock reads.
C39_FirstNudgeNotRateLimited ==
    [][(nudge_step'.kind = "call" /\ ~nudge_step'.force /\ _last_nudge_time = 0)
          => nudge_step'.outcome # "rate_limited"]_vars

====
